---- MODULE Spec2Model ----
(***************************************************************************)
(* Group chat orchestration driven by ChatCompletionGroupChatManager        *)
(* (src/group_chat.py).  The manager's three decision services              *)
(* (should_terminate, select_next_agent, filter_results) are modelled from  *)
(* the source.  The loop that calls them (GroupChatOrchestration and the    *)
(* GroupChatManager base class) is imported, not defined, by the source;    *)
(* it is modelled from the specification (sections 3 and 4.1).              *)
(***************************************************************************)
EXTENDS Integers, Sequences, FiniteSets, TLC

\* ---------------------------------------------------------------- bounds
MaxRoundsBound == 2
MaxDirectLen == 2
MaxDirectCalls == 2
MaxThreads == 2

\* ------------------------------------------------------------- vocabulary
Registries == {{"A", "B"}, {"A", "B", "C"}}
Topics == {"taxation"}
Tasks == {"Please start the discussion."}
Contents == {"m1", "m2"}
Reasons == {"because"}
NoName == "-"
NoMsg == [role |-> "none", name |-> NoName, content |-> "", topic |-> "", participants |-> {}]

\* ChatMessageContent(role=..., name=..., content=...)
ChatMessageContent(role, name, content) ==
    [role |-> role, name |-> name, content |-> content, topic |-> "", participants |-> {}]

\* A rendered prompt: the template's text with its arguments filled in.
RenderPrompt(prompt, topic, participants) ==
    [role |-> "system", name |-> NoName, content |-> prompt,
     topic |-> topic, participants |-> participants]

termination_prompt == "termination_prompt"
selection_prompt == "selection_prompt"
result_filter_prompt == "result_filter_prompt"
TerminationInstruction == "Determine if the discussion should end."
SelectionInstruction == "Now select the next participant to speak."
SummaryInstruction == "Please summarize the discussion."
Instructions == {TerminationInstruction, SelectionInstruction, SummaryInstruction}

\* participant_descriptions: dict name -> description
Descriptions(reg) == [n \in reg |-> "description"]

\* "\n".join([f"{k}: {v}" for k, v in participant_descriptions.items()])
ParticipantsListingSkipFirst(descriptions) ==
    {<<k, descriptions[k]>> :
        k \in DOMAIN descriptions \ {CHOOSE f \in DOMAIN descriptions : TRUE}}

ParticipantsListing(descriptions) ==
    {<<k, descriptions[k]>> : k \in DOMAIN descriptions}

\* A synthetic framing message: a System message, or one of the three
\* fixed User instructions.
IsFraming(m) == m.role = "system" \/ (m.role = "user" /\ m.content \in Instructions)

\* ------------------------------------------------- model responses, parsing
\* response.content of the chat completion service: empty, free text, or a
\* JSON object with some of the keys "result" and "reason".
EmptyResponse == [form |-> "empty", keys |-> {}, result |-> "", reason |-> ""]
TextResponse == [form |-> "text", keys |-> {}, result |-> "", reason |-> ""]
ObjectResponse(keys, result, reason) ==
    [form |-> "object", keys |-> keys, result |-> result, reason |-> reason]

\* No response: the model has not been asked, or has not answered yet.
NoResponse == [form |-> "none", keys |-> {}, result |-> "", reason |-> ""]

\* Variant: an empty response is replaced by a default decision.
ContentOrDefault(raw) ==
    IF raw.form = "empty" THEN ObjectResponse({"result", "reason"}, "false", "") ELSE raw

\* response.content or "{}"
ContentOrEmptyObject(raw) ==
    IF raw.form = "empty" THEN ObjectResponse({}, "", "") ELSE raw

\* BooleanResult.model_validate_json: both fields are required, result is a
\* boolean.
BooleanResultValidate(raw) ==
    LET c == ContentOrEmptyObject(raw) IN
    IF c.form = "object" /\ c.keys = {"result", "reason"} /\ c.result \in {"true", "false"}
    THEN [ok |-> TRUE, result |-> (c.result = "true"), reason |-> c.reason]
    ELSE [ok |-> FALSE, result |-> FALSE, reason |-> ""]

\* StringResult.model_validate_json: both fields are required.
StringResultValidate(raw) ==
    LET c == ContentOrEmptyObject(raw) IN
    IF c.form = "object" /\ c.keys = {"result", "reason"}
    THEN [ok |-> TRUE, result |-> c.result, reason |-> c.reason]
    ELSE [ok |-> FALSE, result |-> "", reason |-> ""]

BooleanResponses ==
    {EmptyResponse, TextResponse}
    \cup {ObjectResponse({"result", "reason"}, v, r) : v \in {"true", "false"}, r \in Reasons}
    \cup {ObjectResponse({"result"}, "true", "")}

StringResponses(values) ==
    {EmptyResponse, TextResponse}
    \cup {ObjectResponse({"result", "reason"}, v, r) : v \in values, r \in Reasons}
    \cup {ObjectResponse({"reason"}, "", r) : r \in Reasons}

\* ------------------------------------------------------------------ state
VARIABLES
    pc,            \* position of the orchestration loop
    registry,      \* names of the members handed to GroupChatOrchestration
    topic,         \* manager.topic
    max_rounds,    \* manager.max_rounds
    current_round, \* round-index of the run
    history,       \* the orchestrator's canonical conversation history
    chat,          \* messages of the ChatHistory object handed to the manager
    chatBefore,    \* what that object held when it was handed over
    shared,        \* TRUE iff that object is the canonical history itself
    call,          \* the manager method the object was handed to
    callStatus,    \* "none", "pending", "returned" or "raised"
    selected,      \* name accepted from select_next_agent
    answered,      \* name the model gave to the last selection query
    reason,        \* reason of the decision that ended the loop
    result,        \* value the run returns
    error,         \* error the run failed with
    saidTrue,      \* the model answered True to some termination query
    genInputs,     \* histories handed to participants, in turn order
    observed,      \* messages delivered to agent_response_callback
    filterCalls,   \* number of filter_results invocations
    filterOut,     \* what the last filter_results invocation returned
    trace,         \* the calls the loop has made, in order
    modelCalls,    \* number of get_chat_message_content calls made
    lastRaw,       \* the model's response to the current call, if any
    decision,      \* the last BooleanResult a manager method returned
    attempts,      \* times the current call has submitted its model query
    scopeIn,       \* arguments and model output of the scope_topic call
    scopeOut,      \* what scope_topic returned
    thread         \* the Foundry agent's thread_id and the service's threads

vars == <<pc, registry, topic, max_rounds, current_round, history, chat,
          chatBefore, shared, call, callStatus, selected, answered, reason,
          result, error, saidTrue, genInputs, observed, filterCalls, filterOut,
          trace, modelCalls, lastRaw, decision, attempts, scopeIn, scopeOut,
          thread>>

scopeVars == <<scopeIn, scopeOut, thread>>

RoundLimitReason == "round limit reached"
NoReason == ""
NoError == "none"
UnknownParticipantError == "Unknown participant selected"
EmptyHistoryError == "No messages in the chat history."
DecisionParseError == "validation error"
CapabilityError == "service failure"

NoDecision == [result |-> FALSE, reason |-> "no decision"]

\* How many times a call site submits its model query before the failure
\* of the service propagates: each query is one bare await.
CallSiteAttempts == 1

\* The scoping agents at rest.
NoScopeIn == [clarification |-> "", pad |-> FALSE, form |-> "none", keys |-> {}, layout |-> "none"]
NoScopeOut == [kind |-> "none", pad |-> FALSE, form |-> "none", keys |-> {}, layout |-> "none"]
NoThread ==
    [pc |-> "idle", thread_id |-> 0, current |-> 0, live |-> {}, created |-> 0,
     failure |-> "none"]

\* ------------------------------------------- the loop's own helpers (spec)
\* Variant: a best-effort summary is attempted after a fatal error.
OnFatalErrorSummarise == "filter"

\* Where the loop goes when a decision service raises: the run fails.
OnFatalError == "failed"

\* Variant: the canonical history itself is handed out.
SnapshotByReference(h) == [messages |-> h, shared |-> TRUE]

\* A defensive copy of the canonical history, handed to a non-owning
\* component.
Snapshot(h) == [messages |-> h, shared |-> FALSE]

\* The round-limit check of the base manager: the hard cap.
BaseShouldTerminate(round, max) ==
    IF round >= max
    THEN [result |-> TRUE, reason |-> RoundLimitReason]
    ELSE [result |-> FALSE, reason |-> NoReason]

\* Variant: a turn is not counted.
NextRoundSkipped(round) == round

\* round-index after a completed participant turn.
NextRound(round) == round + 1

\* Variant: the run returns no message.
RunResultDropped(filtered) == NoMsg

\* The value the run returns: the output of filter_results.
RunResult(filtered) == filtered.result

\* Number of participant turns recorded in a history.
Turns(h) == Cardinality({i \in 1..Len(h) : h[i].role = "assistant"})

\* ---------------------------------- ChatCompletionGroupChatManager (source)
\* Variant: input is requested once a participant has spoken.
ShouldRequestUserInputAfterTurn(chat_history) ==
    [result |-> (Len(chat_history) > 0
                 /\ chat_history[Len(chat_history)].role = "assistant"),
     reason |-> "This group chat manager does not require user input.",
     chat |-> chat_history,
     queries |-> 0]

\* should_request_user_input: always False, no model call, history
\* untouched.
ShouldRequestUserInput(chat_history) ==
    [result |-> FALSE,
     reason |-> "This group chat manager does not require user input.",
     chat |-> chat_history,
     queries |-> 0]

\* Variant: the base decision is not looked at.
ShouldTerminateEntryIgnoringBase(chat_history, base, tp) ==
    [returned |-> FALSE,
     chat |-> <<RenderPrompt(termination_prompt, tp, {})>>
              \o chat_history
              \o <<ChatMessageContent("user", NoName, TerminationInstruction)>>]

\* Variant: the framing is written into a private copy.
ShouldTerminateEntryOnCopy(chat_history, base, tp) ==
    [returned |-> base.result, chat |-> chat_history]

\* should_terminate, up to the model call: the base decision is returned
\* as it is when it says stop; otherwise the framing is written into the
\* ChatHistory object that was passed in.
ShouldTerminateEntryBothInFront(chat_history, base, tp) ==
    IF base.result
    THEN [returned |-> TRUE, chat |-> chat_history]
    ELSE [returned |-> FALSE,
          chat |-> <<RenderPrompt(termination_prompt, tp, {}),
                     ChatMessageContent("user", NoName, TerminationInstruction)>>
                   \o chat_history]

ShouldTerminateEntryFramingFirst(chat_history, base, tp) ==
    [returned |-> base.result,
     chat |-> <<RenderPrompt(termination_prompt, tp, {})>>
              \o chat_history
              \o <<ChatMessageContent("user", NoName, TerminationInstruction)>>]

ShouldTerminateEntry(chat_history, base, tp) ==
    IF base.result
    THEN [returned |-> TRUE, chat |-> chat_history]
    ELSE [returned |-> FALSE,
          chat |-> <<RenderPrompt(termination_prompt, tp, {})>>
                   \o chat_history
                   \o <<ChatMessageContent("user", NoName, TerminationInstruction)>>]

\* Variant: the parsed answer is inverted.
ShouldTerminateReturnInverted(raw) ==
    LET d == BooleanResultValidate(raw) IN
    [ok |-> d.ok, result |-> (d.ok /\ ~d.result), reason |-> d.reason]

\* should_terminate, after the model call.
ShouldTerminateReturn(raw) == BooleanResultValidate(raw)

\* select_next_agent, up to the model call.
SelectNextAgentEntryOnCopy(chat_history, descriptions, tp) == chat_history

SelectNextAgentEntry(chat_history, descriptions, tp) ==
    <<RenderPrompt(selection_prompt, tp, ParticipantsListing(descriptions))>>
    \o chat_history
    \o <<ChatMessageContent("user", NoName, SelectionInstruction)>>

\* Variant: the parsed name is returned without the membership test.
SelectNextAgentReturnUnchecked(raw, descriptions) ==
    LET parsed == StringResultValidate(raw) IN
    IF ~parsed.ok
    THEN [ok |-> FALSE, error |-> DecisionParseError, result |-> NoName, reason |-> ""]
    ELSE [ok |-> TRUE, error |-> NoError, result |-> parsed.result, reason |-> parsed.reason]

\* select_next_agent, after the model call: the parsed name is returned
\* only when it is a key of participant_descriptions.
SelectNextAgentReturn(raw, descriptions) ==
    LET parsed == StringResultValidate(raw) IN
    IF ~parsed.ok
    THEN [ok |-> FALSE, error |-> DecisionParseError, result |-> NoName, reason |-> ""]
    ELSE IF parsed.result \in DOMAIN descriptions
    THEN [ok |-> TRUE, error |-> NoError, result |-> parsed.result, reason |-> parsed.reason]
    ELSE [ok |-> FALSE, error |-> UnknownParticipantError, result |-> NoName, reason |-> ""]

\* Variant: the guard asks for a participant message.
FilterResultsRaisesWithoutTurns(chat_history) ==
    \A i \in 1..Len(chat_history) : chat_history[i].role # "assistant"

\* filter_results, the guard at its head.
FilterResultsRaises(chat_history) == Len(chat_history) = 0

\* filter_results, up to the model call.
FilterResultsEntry(chat_history, tp) ==
    <<RenderPrompt(result_filter_prompt, tp, {})>>
    \o chat_history
    \o <<ChatMessageContent("user", NoName, SummaryInstruction)>>

\* filter_results, after the model call.
FilterResultsReturnSwapped(raw) ==
    LET parsed == StringResultValidate(raw) IN
    IF ~parsed.ok
    THEN [ok |-> FALSE, result |-> NoMsg, reason |-> ""]
    ELSE [ok |-> TRUE,
          result |-> ChatMessageContent("assistant", NoName, parsed.reason),
          reason |-> parsed.result]

FilterResultsReturn(raw) ==
    LET parsed == StringResultValidate(raw) IN
    IF ~parsed.ok
    THEN [ok |-> FALSE, result |-> NoMsg, reason |-> ""]
    ELSE [ok |-> TRUE,
          result |-> ChatMessageContent("assistant", NoName, parsed.result),
          reason |-> parsed.reason]

\* Variant: every message of the list is reported twice.
AgentResponseCallbackTwice(seen, messages) == seen \o messages \o messages

\* agent_response_callback: one message, or a list of them.
AgentResponseCallback(seen, messages) == seen \o messages

\* ------------------------------------------------------------------- Init
Init ==
    /\ pc = "idle"
    /\ registry \in Registries
    /\ topic \in Topics
    /\ max_rounds \in 1..MaxRoundsBound
    /\ current_round = 0
    /\ history = <<>>
    /\ chat = <<>>
    /\ chatBefore = <<>>
    /\ shared = FALSE
    /\ call = "none"
    /\ callStatus = "none"
    /\ selected = NoName
    /\ answered = NoName
    /\ reason = NoReason
    /\ result = NoMsg
    /\ error = NoError
    /\ saidTrue = FALSE
    /\ genInputs = <<>>
    /\ observed = <<>>
    /\ filterCalls = 0
    /\ filterOut = NoMsg
    /\ trace = <<>>
    /\ modelCalls = 0
    /\ lastRaw = NoResponse
    /\ decision = NoDecision
    /\ attempts = 0
    /\ scopeIn = NoScopeIn
    /\ scopeOut = NoScopeOut
    /\ thread = NoThread

\* The canonical history after the manager has written `after` into the
\* object it was handed.
Canonical(h, isShared, after) == IF isShared THEN after ELSE h

\* ---------------------------------------------------------------- actions
\* invoke(task): the history is seeded with the task as a User message.
Invoke ==
    /\ pc = "idle"
    /\ \E task \in Tasks :
         history' = <<ChatMessageContent("user", NoName, task)>>
    /\ pc' = "check"
    /\ UNCHANGED <<registry, topic, max_rounds, current_round, chat, chatBefore,
                   shared, call, callStatus, selected, answered, reason, result,
                   error, saidTrue, genInputs, observed, filterCalls, filterOut>>
    /\ UNCHANGED trace
    /\ UNCHANGED <<modelCalls, lastRaw, decision>>
    /\ UNCHANGED scopeVars
    /\ UNCHANGED attempts

\* The loop asks should_terminate over a snapshot; the method returns the
\* base decision or submits the framed history to the model.
CheckTermination ==
    /\ pc = "check"
    /\ LET snap == Snapshot(history)
           base == BaseShouldTerminate(current_round, max_rounds)
           r == ShouldTerminateEntry(snap.messages, base, topic)
       IN /\ chatBefore' = snap.messages
          /\ shared' = snap.shared
          /\ chat' = r.chat
          /\ history' = Canonical(history, snap.shared, r.chat)
          /\ call' = "should_terminate"
          /\ IF r.returned
             THEN /\ callStatus' = "returned"
                  /\ reason' = base.reason
                  /\ decision' = base
                  /\ modelCalls' = modelCalls
                  /\ attempts' = 0
                  /\ pc' = "filter"
             ELSE /\ callStatus' = "pending"
                  /\ reason' = reason
                  /\ decision' = decision
                  /\ modelCalls' = modelCalls + 1
                  /\ attempts' = 1
                  /\ pc' = "st_wait"
    /\ UNCHANGED <<registry, topic, max_rounds, current_round, selected, answered,
                   result, error, saidTrue, genInputs, observed, filterCalls, filterOut>>
    /\ trace' = Append(trace, "should_terminate")
    /\ lastRaw' = NoResponse
    /\ UNCHANGED scopeVars

\* The model answers the termination query.
TerminationResponse ==
    /\ pc = "st_wait"
    /\ \E raw \in BooleanResponses :
         LET d == ShouldTerminateReturn(raw) IN
         /\ lastRaw' = raw
         /\ IF ~d.ok
            THEN /\ callStatus' = "raised"
                 /\ error' = DecisionParseError
                 /\ pc' = OnFatalError
                 /\ UNCHANGED <<reason, saidTrue, decision>>
            ELSE /\ callStatus' = "returned"
                 /\ error' = error
                 /\ saidTrue' = (saidTrue \/ raw.result = "true")
                 /\ decision' = [result |-> d.result, reason |-> d.reason]
                 /\ IF d.result
                    THEN reason' = d.reason /\ pc' = "filter"
                    ELSE reason' = reason /\ pc' = "select"
    /\ UNCHANGED <<registry, topic, max_rounds, current_round, history, chat,
                   chatBefore, shared, call, selected, answered, result,
                   genInputs, observed, filterCalls, filterOut>>
    /\ UNCHANGED trace
    /\ UNCHANGED <<modelCalls, attempts>>
    /\ UNCHANGED scopeVars

\* The loop asks select_next_agent over a snapshot.
SelectNextAgent ==
    /\ pc = "select"
    /\ LET snap == Snapshot(history)
           after == SelectNextAgentEntry(snap.messages, Descriptions(registry), topic)
       IN /\ chatBefore' = snap.messages
          /\ shared' = snap.shared
          /\ chat' = after
          /\ history' = Canonical(history, snap.shared, after)
    /\ call' = "select_next_agent"
    /\ callStatus' = "pending"
    /\ pc' = "sel_wait"
    /\ UNCHANGED <<registry, topic, max_rounds, current_round, selected, answered,
                   reason, result, error, saidTrue, genInputs, observed,
                   filterCalls, filterOut>>
    /\ trace' = Append(trace, "select_next_agent")
    /\ modelCalls' = modelCalls + 1 /\ lastRaw' = NoResponse /\ UNCHANGED decision
    /\ UNCHANGED scopeVars
    /\ attempts' = 1

\* The model answers the selection query.
SelectionResponse ==
    /\ pc = "sel_wait"
    /\ \E raw \in StringResponses(registry \cup {"Ghost"}) :
         LET d == SelectNextAgentReturn(raw, Descriptions(registry)) IN
         /\ lastRaw' = raw
         /\ answered' = IF StringResultValidate(raw).ok THEN raw.result ELSE NoName
         /\ IF d.ok
            THEN /\ callStatus' = "returned"
                 /\ selected' = d.result
                 /\ error' = error
                 /\ pc' = "generate"
            ELSE /\ callStatus' = "raised"
                 /\ selected' = NoName
                 /\ error' = d.error
                 /\ pc' = OnFatalError
    /\ UNCHANGED <<registry, topic, max_rounds, current_round, history, chat,
                   chatBefore, shared, call, reason, result, saidTrue,
                   genInputs, observed, filterCalls, filterOut>>
    /\ UNCHANGED trace
    /\ UNCHANGED <<modelCalls, decision, attempts>>
    /\ UNCHANGED scopeVars

\* The selected participant is asked to generate over a snapshot.
RequestGeneration ==
    /\ pc = "generate"
    /\ selected \in registry
    /\ genInputs' = Append(genInputs, Snapshot(history).messages)
    /\ pc' = "gen_wait"
    /\ UNCHANGED <<registry, topic, max_rounds, current_round, history, chat,
                   chatBefore, shared, call, callStatus, selected, answered,
                   reason, result, error, saidTrue, observed, filterCalls, filterOut>>
    /\ trace' = Append(trace, "generate")
    /\ UNCHANGED <<modelCalls, lastRaw, decision>>
    /\ UNCHANGED scopeVars
    /\ UNCHANGED attempts

\* The participant's message arrives: it is appended and the round is
\* counted.
AgentResponse ==
    /\ pc = "gen_wait"
    /\ \E c \in Contents :
         LET m == ChatMessageContent("assistant", selected, c) IN
         history' = Append(history, m)
    /\ current_round' = NextRound(current_round)
    /\ pc' = "notify"
    /\ UNCHANGED <<registry, topic, max_rounds, chat, chatBefore, shared, call,
                   callStatus, selected, answered, reason, result, error,
                   saidTrue, genInputs, observed, filterCalls, filterOut>>
    /\ UNCHANGED trace
    /\ UNCHANGED <<modelCalls, lastRaw, decision>>
    /\ UNCHANGED scopeVars
    /\ UNCHANGED attempts

\* The observer is notified of the message that was just appended.
NotifyObserver ==
    /\ pc = "notify"
    /\ observed' = AgentResponseCallback(observed, <<history[Len(history)]>>)
    /\ pc' = "check"
    /\ UNCHANGED <<registry, topic, max_rounds, current_round, history, chat,
                   chatBefore, shared, call, callStatus, selected, answered,
                   reason, result, error, saidTrue, genInputs, filterCalls,
                   filterOut, trace, modelCalls, lastRaw, decision>>
    /\ UNCHANGED scopeVars
    /\ UNCHANGED attempts

\* The loop has stopped: filter_results is asked over a snapshot.
FilterResults ==
    /\ pc = "filter"
    /\ filterCalls' = filterCalls + 1
    /\ call' = "filter_results"
    /\ LET snap == Snapshot(history) IN
         /\ chatBefore' = snap.messages
         /\ shared' = snap.shared
         /\ IF FilterResultsRaises(snap.messages)
            THEN /\ chat' = snap.messages
                 /\ history' = history
                 /\ callStatus' = "raised"
                 /\ error' = EmptyHistoryError
                 /\ modelCalls' = modelCalls
                 /\ attempts' = 0
                 /\ pc' = OnFatalError
            ELSE /\ chat' = FilterResultsEntry(snap.messages, topic)
                 /\ history' = Canonical(history, snap.shared, chat')
                 /\ callStatus' = "pending"
                 /\ error' = error
                 /\ modelCalls' = modelCalls + 1
                 /\ attempts' = 1
                 /\ pc' = "flt_wait"
    /\ UNCHANGED <<registry, topic, max_rounds, current_round, selected, answered,
                   reason, result, saidTrue, genInputs, observed, filterOut>>
    /\ trace' = Append(trace, "filter_results")
    /\ lastRaw' = NoResponse /\ UNCHANGED decision
    /\ UNCHANGED scopeVars

\* The model answers the summary query; the run returns the summary.
FilterResponse ==
    /\ pc = "flt_wait"
    /\ \E raw \in StringResponses(Contents) :
         LET d == FilterResultsReturn(raw) IN
         /\ lastRaw' = raw
         /\ IF d.ok
            THEN /\ callStatus' = "returned"
                 /\ filterOut' = d.result
                 /\ result' = RunResult(d)
                 /\ error' = error
                 /\ pc' = "done"
            ELSE /\ callStatus' = "raised"
                 /\ filterOut' = filterOut
                 /\ result' = result
                 /\ error' = DecisionParseError
                 /\ pc' = OnFatalError
    /\ UNCHANGED <<registry, topic, max_rounds, current_round, history, chat,
                   chatBefore, shared, call, selected, answered, reason,
                   saidTrue, genInputs, observed, filterCalls>>
    /\ UNCHANGED <<trace, modelCalls, decision, attempts>>
    /\ UNCHANGED scopeVars

\* The model service fails while a decision query is pending: the exception
\* leaves the manager method and the run.
ServiceFailure ==
    /\ pc \in {"st_wait", "sel_wait", "flt_wait"}
    /\ IF attempts < CallSiteAttempts
       THEN /\ attempts' = attempts + 1
            /\ modelCalls' = modelCalls + 1
            /\ UNCHANGED <<pc, callStatus, error, selected>>
       ELSE /\ callStatus' = "raised"
            /\ error' = CapabilityError
            /\ selected' = IF call = "select_next_agent" THEN NoName ELSE selected
            /\ pc' = OnFatalError
            /\ UNCHANGED <<attempts, modelCalls>>
    /\ UNCHANGED <<registry, topic, max_rounds, current_round, history, chat,
                   chatBefore, shared, call, answered, reason, result, saidTrue,
                   genInputs, observed, filterCalls, filterOut, trace, lastRaw,
                   decision>>
    /\ UNCHANGED scopeVars

Next ==
    \/ Invoke
    \/ CheckTermination
    \/ TerminationResponse
    \/ SelectNextAgent
    \/ SelectionResponse
    \/ RequestGeneration
    \/ AgentResponse
    \/ NotifyObserver
    \/ FilterResults
    \/ FilterResponse
    \/ ServiceFailure

Spec == Init /\ [][Next]_vars

\* The loop is one sequential coroutine: whenever it can take a step it
\* does, and every external call it awaits returns or raises.
SpecLive == Spec /\ WF_vars(Next)

\* ------------------------------------------- the manager, called directly
\* The manager's methods called on an arbitrary ChatHistory object, one
\* whole call per step, several calls in a row on the same object.
DirectMessages ==
    {ChatMessageContent("user", NoName, t) : t \in Tasks}
    \cup {ChatMessageContent("assistant", "A", "m1")}

DirectHistories == UNION {[1..n -> DirectMessages] : n \in 0..MaxDirectLen}

InitDirect ==
    /\ pc = "direct"
    /\ registry \in Registries
    /\ topic \in Topics
    /\ max_rounds \in 1..MaxRoundsBound
    /\ current_round \in 0..max_rounds
    /\ history = <<>>
    /\ chat \in DirectHistories
    /\ chatBefore = chat
    /\ shared = FALSE
    /\ call = "none"
    /\ callStatus = "none"
    /\ selected = NoName
    /\ answered = NoName
    /\ reason = NoReason
    /\ result = NoMsg
    /\ error = NoError
    /\ saidTrue = FALSE
    /\ genInputs = <<>>
    /\ observed = <<>>
    /\ filterCalls = 0
    /\ filterOut = NoMsg
    /\ trace = <<>>
    /\ modelCalls = 0
    /\ lastRaw = NoResponse
    /\ decision = NoDecision
    /\ attempts = 0
    /\ scopeIn = NoScopeIn
    /\ scopeOut = NoScopeOut
    /\ thread = NoThread

\* should_request_user_input(chat_history)
DirectShouldRequestUserInput ==
    /\ pc = "direct"
    /\ Len(trace) < MaxDirectCalls
    /\ LET d == ShouldRequestUserInput(chat) IN
         /\ chatBefore' = chat
         /\ chat' = d.chat
         /\ modelCalls' = modelCalls + d.queries
         /\ decision' = [result |-> d.result, reason |-> d.reason]
    /\ call' = "should_request_user_input"
    /\ callStatus' = "returned"
    /\ error' = NoError
    /\ lastRaw' = NoResponse
    /\ trace' = Append(trace, "should_request_user_input")
    /\ UNCHANGED <<pc, registry, topic, max_rounds, current_round, history,
                   shared, selected, answered, reason, result, saidTrue,
                   genInputs, observed, filterCalls, filterOut>>
    /\ UNCHANGED scopeVars
    /\ attempts' = 0

\* should_terminate(chat_history), with the model's answer or the failure
\* of the service (no response).
DirectShouldTerminate ==
    /\ pc = "direct"
    /\ Len(trace) < MaxDirectCalls
    /\ chatBefore' = chat
    /\ call' = "should_terminate"
    /\ trace' = Append(trace, "should_terminate")
    /\ LET base == BaseShouldTerminate(current_round, max_rounds)
           r == ShouldTerminateEntry(chat, base, topic)
       IN /\ chat' = r.chat
          /\ IF r.returned
             THEN /\ callStatus' = "returned"
                  /\ error' = NoError
                  /\ decision' = base
                  /\ reason' = base.reason
                  /\ lastRaw' = NoResponse
                  /\ UNCHANGED <<modelCalls, saidTrue>>
                  /\ attempts' = 0
             ELSE \E raw \in BooleanResponses \cup {NoResponse} :
                    LET d == ShouldTerminateReturn(raw) IN
                    /\ lastRaw' = raw
                    /\ modelCalls' = modelCalls + (IF raw = NoResponse THEN CallSiteAttempts ELSE 1)
                    /\ attempts' = IF raw = NoResponse THEN CallSiteAttempts ELSE 1
                    /\ IF raw = NoResponse \/ ~d.ok
                       THEN /\ callStatus' = "raised"
                            /\ error' = IF raw = NoResponse THEN CapabilityError
                                        ELSE DecisionParseError
                            /\ UNCHANGED <<decision, reason, saidTrue>>
                       ELSE /\ callStatus' = "returned"
                            /\ error' = NoError
                            /\ decision' = [result |-> d.result, reason |-> d.reason]
                            /\ reason' = d.reason
                            /\ saidTrue' = (saidTrue \/ raw.result = "true")
    /\ UNCHANGED <<pc, registry, topic, max_rounds, current_round, history,
                   shared, selected, answered, result, genInputs, observed,
                   filterCalls, filterOut>>
    /\ UNCHANGED scopeVars

\* select_next_agent(chat_history, participant_descriptions), with the
\* model's answer or the failure of the service.
DirectSelectNextAgent ==
    /\ pc = "direct"
    /\ Len(trace) < MaxDirectCalls
    /\ chatBefore' = chat
    /\ call' = "select_next_agent"
    /\ trace' = Append(trace, "select_next_agent")
    /\ chat' = SelectNextAgentEntry(chat, Descriptions(registry), topic)
    /\ \E raw \in StringResponses(registry \cup {"Ghost"}) \cup {NoResponse} :
         LET d == SelectNextAgentReturn(raw, Descriptions(registry)) IN
         /\ lastRaw' = raw
         /\ modelCalls' = modelCalls + (IF raw = NoResponse THEN CallSiteAttempts ELSE 1)
         /\ attempts' = IF raw = NoResponse THEN CallSiteAttempts ELSE 1
         /\ answered' = IF raw # NoResponse /\ StringResultValidate(raw).ok
                        THEN raw.result ELSE NoName
         /\ IF raw = NoResponse
            THEN /\ callStatus' = "raised"
                 /\ error' = CapabilityError
                 /\ selected' = NoName
                 /\ reason' = reason
            ELSE /\ callStatus' = IF d.ok THEN "returned" ELSE "raised"
                 /\ error' = d.error
                 /\ selected' = d.result
                 /\ reason' = IF d.ok THEN d.reason ELSE reason
    /\ UNCHANGED <<pc, registry, topic, max_rounds, current_round, history,
                   shared, result, saidTrue, genInputs, observed, filterCalls,
                   filterOut, decision>>
    /\ UNCHANGED scopeVars

\* filter_results(chat_history), with the model's answer or the failure of
\* the service.
DirectFilterResults ==
    /\ pc = "direct"
    /\ Len(trace) < MaxDirectCalls
    /\ chatBefore' = chat
    /\ call' = "filter_results"
    /\ filterCalls' = filterCalls + 1
    /\ trace' = Append(trace, "filter_results")
    /\ IF FilterResultsRaises(chat)
       THEN /\ chat' = chat
            /\ modelCalls' = modelCalls
            /\ attempts' = 0
            /\ lastRaw' = NoResponse
            /\ callStatus' = "raised"
            /\ error' = EmptyHistoryError
            /\ filterOut' = NoMsg
            /\ reason' = reason
       ELSE \E raw \in StringResponses(Contents) \cup {NoResponse} :
              LET d == FilterResultsReturn(raw) IN
              /\ chat' = FilterResultsEntry(chat, topic)
              /\ modelCalls' = modelCalls + (IF raw = NoResponse THEN CallSiteAttempts ELSE 1)
              /\ attempts' = IF raw = NoResponse THEN CallSiteAttempts ELSE 1
              /\ lastRaw' = raw
              /\ IF raw = NoResponse
                 THEN /\ callStatus' = "raised"
                      /\ error' = CapabilityError
                      /\ filterOut' = NoMsg
                      /\ reason' = reason
                 ELSE /\ callStatus' = IF d.ok THEN "returned" ELSE "raised"
                      /\ error' = IF d.ok THEN NoError ELSE DecisionParseError
                      /\ filterOut' = d.result
                      /\ reason' = IF d.ok THEN d.reason ELSE reason
    /\ UNCHANGED <<pc, registry, topic, max_rounds, current_round, history,
                   shared, selected, answered, result, saidTrue, genInputs,
                   observed, decision>>
    /\ UNCHANGED scopeVars

NextDirect ==
    \/ DirectShouldRequestUserInput
    \/ DirectShouldTerminate
    \/ DirectSelectNextAgent
    \/ DirectFilterResults

SpecDirect == InitDirect /\ [][NextDirect]_vars

\* ------------------------------------------------------ the scoping agents
\* A model output is a string; what the agents do with it depends on its
\* surrounding whitespace (pad), on what it is as JSON (form), on the keys
\* of the object or the string items of the array (keys) and on how it is
\* laid out (layout).
ScopeKeys == {"refined_topic", "scope_statement", "notes"}
NoClarification == "<None>"
Clarifications == {NoClarification, "", "Focus on AI in financial reporting"}

RawOutputs ==
    {[pad |-> p, form |-> f, keys |-> {}, layout |-> "compact"] :
        p \in BOOLEAN, f \in {"text", "scalar"}}
    \cup {[pad |-> p, form |-> f, keys |-> k, layout |-> l] :
            p \in BOOLEAN, f \in {"broken", "array", "object"},
            k \in SUBSET ScopeKeys, l \in {"compact", "indent2"}}

\* str.strip()
Strip(text) == [text EXCEPT !.pad = FALSE]

\* str.startswith("{"): an object, or a text that opens like one and is
\* not valid JSON.
StartsWithBrace(text) == ~text.pad /\ text.form \in {"object", "broken"}

\* bool(clarification_response)
Truthy(clarification_response) == clarification_response \notin {NoClarification, ""}

\* json.loads: JSONDecodeError on what is not JSON, otherwise the value.
JsonLoads(text) ==
    IF text.form \in {"text", "broken"}
    THEN [ok |-> FALSE, isdict |-> FALSE, items |-> {}]
    ELSE [ok |-> TRUE, isdict |-> text.form = "object", items |-> text.keys]

\* json.dumps(obj, indent=2) of a parsed object.
JsonDumps(parsed) ==
    [kind |-> "str", pad |-> FALSE, form |-> "object", keys |-> parsed.items,
     layout |-> "indent2"]

AsString(text) ==
    [kind |-> "str", pad |-> text.pad, form |-> text.form, keys |-> text.keys,
     layout |-> text.layout]

AsDict(parsed) ==
    [kind |-> "dict", pad |-> FALSE, form |-> "object", keys |-> parsed.items,
     layout |-> "none"]

HasScopeKeys(parsed) ==
    "refined_topic" \in parsed.items /\ "scope_statement" \in parsed.items

\* scoping.py: the part of scope_topic after kernel.invoke.
KernelScopeTopicAnyContainer(output) ==
    LET result_str == Strip(output)
        output_data == JsonLoads(result_str)
    IN IF output_data.ok /\ HasScopeKeys(output_data)
       THEN AsDict(output_data)
       ELSE AsString(result_str)

KernelScopeTopic(output) ==
    LET result_str == Strip(output)
        output_data == JsonLoads(result_str)
    IN IF output_data.ok /\ output_data.isdict /\ HasScopeKeys(output_data)
       THEN AsDict(output_data)
       ELSE AsString(result_str)

InitScoping ==
    /\ pc = "scoping"
    /\ registry = {"A", "B"}
    /\ topic \in Topics
    /\ max_rounds = 1
    /\ current_round = 0
    /\ history = <<>>
    /\ chat = <<>>
    /\ chatBefore = <<>>
    /\ shared = FALSE
    /\ call = "none"
    /\ callStatus = "none"
    /\ selected = NoName
    /\ answered = NoName
    /\ reason = NoReason
    /\ result = NoMsg
    /\ error = NoError
    /\ saidTrue = FALSE
    /\ genInputs = <<>>
    /\ observed = <<>>
    /\ filterCalls = 0
    /\ filterOut = NoMsg
    /\ trace = <<>>
    /\ modelCalls = 0
    /\ lastRaw = NoResponse
    /\ decision = NoDecision
    /\ attempts = 0
    /\ scopeIn = NoScopeIn
    /\ scopeOut = NoScopeOut
    /\ thread = NoThread

loopVars ==
    <<pc, registry, topic, max_rounds, current_round, history, chat, chatBefore,
      shared, call, callStatus, selected, answered, reason, result, error,
      saidTrue, genInputs, observed, filterCalls, filterOut, trace, modelCalls,
      lastRaw, decision, attempts>>

\* scoping.py scope_topic(initial_topic, clarification_response): one call,
\* with the output the kernel function produced.
ScopeTopic ==
    /\ \E c \in Clarifications, raw \in RawOutputs :
         /\ scopeIn' = [clarification |-> c, pad |-> raw.pad, form |-> raw.form,
                        keys |-> raw.keys, layout |-> raw.layout]
         /\ scopeOut' = KernelScopeTopic(raw)
    /\ UNCHANGED thread
    /\ UNCHANGED loopVars

NextScoping == ScopeTopic

SpecScoping == InitScoping /\ [][NextScoping]_vars

\* found.py: what scope_topic returns from its except clause.
ErrorResult ==
    [kind |-> "str", pad |-> FALSE, form |-> "error", keys |-> {},
     layout |-> "compact"]

\* found.py: the part of scope_topic after the try block.
FoundryReturnOnlyWhenAsked(clarification_response, result_str) ==
    LET expect_json == Truthy(clarification_response)
        parsed_json == JsonLoads(result_str)
    IN IF expect_json /\ parsed_json.ok /\ parsed_json.isdict
          /\ HasScopeKeys(parsed_json)
       THEN JsonDumps(parsed_json)
       ELSE AsString(result_str)

FoundryReturn(clarification_response, result_str) ==
    LET expect_json == Truthy(clarification_response) \/ StartsWithBrace(result_str)
        parsed_json == JsonLoads(result_str)
    IN IF expect_json /\ parsed_json.ok /\ parsed_json.isdict
          /\ HasScopeKeys(parsed_json)
       THEN JsonDumps(parsed_json)
       ELSE AsString(result_str)

\* found.py scope_topic is entered and asks the service for a thread.
FoundryScopeTopic ==
    /\ thread.pc = "idle"
    /\ thread.created < MaxThreads
    /\ \E c \in Clarifications :
         scopeIn' = [NoScopeIn EXCEPT !.clarification = c]
    /\ scopeOut' = NoScopeOut
    /\ thread' = [thread EXCEPT !.pc = "create", !.failure = "none"]
    /\ UNCHANGED loopVars

\* create_thread() returns: the thread exists and its id is kept.
CreateThread ==
    /\ thread.pc = "create"
    /\ LET id == thread.created + 1 IN
         thread' = [thread EXCEPT !.pc = "respond", !.created = id,
                                  !.current = id, !.thread_id = id,
                                  !.live = @ \cup {id}]
    /\ UNCHANGED <<scopeIn, scopeOut>>
    /\ UNCHANGED loopVars

\* get_response() returns: the content is stripped and the deletion of
\* the thread is requested.
GetResponse ==
    /\ thread.pc = "respond"
    /\ \E raw \in RawOutputs :
         scopeIn' = [scopeIn EXCEPT !.pad = raw.pad, !.form = raw.form,
                                    !.keys = raw.keys, !.layout = raw.layout]
    /\ thread' = [thread EXCEPT !.pc = "delete"]
    /\ UNCHANGED scopeOut
    /\ UNCHANGED loopVars

\* delete() returns: thread_id is cleared, the response is examined and
\* scope_topic returns.
DeleteThread ==
    /\ thread.pc = "delete"
    /\ thread' = [thread EXCEPT !.pc = "idle", !.thread_id = 0,
                                !.live = @ \ {thread.current}]
    /\ scopeOut' = FoundryReturn(scopeIn.clarification, Strip(scopeIn))
    /\ UNCHANGED scopeIn
    /\ UNCHANGED loopVars

\* One of the three awaited calls raises: the except clause returns the
\* error string. A failed creation made no thread; a failed deletion may or
\* may not have removed the thread on the service.
AgentFailure ==
    /\ thread.pc \in {"create", "respond", "delete"}
    /\ \E gone \in BOOLEAN :
         thread' = [thread EXCEPT
                      !.pc = "idle",
                      !.failure = thread.pc,
                      !.created = IF thread.pc = "create" THEN @ + 1 ELSE @,
                      !.live = IF thread.pc = "delete" /\ gone
                               THEN @ \ {thread.current} ELSE @]
    /\ scopeOut' = ErrorResult
    /\ UNCHANGED scopeIn
    /\ UNCHANGED loopVars

NextFoundry ==
    \/ FoundryScopeTopic
    \/ CreateThread
    \/ GetResponse
    \/ DeleteThread
    \/ AgentFailure

SpecFoundry == InitScoping /\ [][NextFoundry]_vars

\* The orchestrator's state, read off the loop position.
OrchState ==
    CASE pc = "idle" -> "Created"
      [] pc = "direct" -> "Created"
      [] pc \in {"check", "st_wait", "select", "sel_wait", "generate", "gen_wait",
                 "notify"} -> "Running"
      [] pc \in {"filter", "flt_wait"} -> "Terminating"
      [] pc = "done" -> "Done"
      [] pc = "failed" -> "Failed"

\* ----------------------------------------------------------------- claims
Seed(h) == Len(h) >= 1 /\ h[1].role = "user" /\ h[1].content \in Tasks

\* C1: whatever the model answers to the termination queries, round-index
\* never exceeds max-rounds and at most max-rounds participant turns are
\* requested and completed.
C1_RoundCap ==
    /\ current_round <= max_rounds
    /\ Turns(history) <= max_rounds
    /\ Len(genInputs) <= max_rounds

\* The model never said True, max-rounds turns ran and the cap stopped the loop.
C1_Witness ==
    /\ ~saidTrue
    /\ max_rounds = MaxRoundsBound
    /\ Turns(history) = max_rounds
    /\ pc = "filter"
    /\ reason = RoundLimitReason

\* C2: an accepted selection names a key of the registered descriptions; a
\* parsed answer outside the registry makes select_next_agent raise the
\* unknown-participant error without a decision, and nothing is generated
\* afterwards.
C2_SpeakerValidity ==
    /\ [](selected # NoName => selected \in registry)
    /\ [](answered \notin (registry \cup {NoName})
            => /\ error = UnknownParticipantError
               /\ callStatus = "raised"
               /\ selected = NoName
               /\ pc = "failed"
               /\ Len(genInputs) = current_round)
    /\ [][error = UnknownParticipantError
            => UNCHANGED <<history, genInputs, current_round, observed>>]_vars

\* After one completed turn the model names a participant outside the registry.
C2_Witness ==
    /\ answered = "Ghost"
    /\ error = UnknownParticipantError
    /\ current_round = 1

\* C3: the canonical history only grows by appends at its end.
C3_AppendOnly ==
    [][/\ Len(history') >= Len(history)
       /\ SubSeq(history', 1, Len(history)) = history]_vars

\* Two turns were appended and all three decision services have been called.
C3_Witness ==
    /\ Len(history) = 3
    /\ call = "filter_results"
    /\ callStatus = "pending"
    /\ Len(chat) = 5

\* C4: no framing message is in a history handed to a participant or in
\* the canonical history.
C4_FramingIsolation ==
    /\ \A i \in 1..Len(history) : ~IsFraming(history[i])
    /\ \A k \in 1..Len(genInputs) :
         \A i \in 1..Len(genInputs[k]) : ~IsFraming(genInputs[k][i])

\* A second participant was handed the history after termination and
\* selection queries, and the run returned after the summary query.
C4_Witness ==
    /\ Len(genInputs) = 2
    /\ Len(genInputs[2]) = 2
    /\ pc = "done"

\* The framing a manager method writes into the object it was handed.
PromptOf(c) ==
    CASE c = "should_terminate" -> termination_prompt
      [] c = "select_next_agent" -> selection_prompt
      [] c = "filter_results" -> result_filter_prompt
      [] OTHER -> ""
InstructionOf(c) ==
    CASE c = "should_terminate" -> TerminationInstruction
      [] c = "select_next_agent" -> SelectionInstruction
      [] c = "filter_results" -> SummaryInstruction
      [] OTHER -> ""
StoppedBeforeFraming ==
    \/ call = "should_terminate" /\ current_round >= max_rounds
    \/ call = "filter_results" /\ chatBefore = <<>>
FramedInPlace ==
    /\ Len(chat) = Len(chatBefore) + 2
    /\ chat[1].role = "system"
    /\ chat[1].content = PromptOf(call)
    /\ chat[Len(chat)] = ChatMessageContent("user", NoName, InstructionOf(call))
    /\ SubSeq(chat, 2, Len(chat) - 1) = chatBefore

\* C5 (as stated): after a decision call has returned or raised, the
\* history object it was handed holds the same messages as before the call.
C5_HandedObjectUntouched ==
    callStatus \in {"returned", "raised"} => chat = chatBefore

\* C5 (amended): a decision call that gets as far as the model query
\* leaves the object it was handed with a System framing message in front
\* and a User instruction at the end, the earlier messages unchanged in
\* between; a call that stops before framing leaves the object as it was.
C5_HandedObjectFramed ==
    call # "none" =>
        IF StoppedBeforeFraming THEN chat = chatBefore ELSE FramedInPlace

\* The selection call has raised on an object that held two messages.
C5_Witness ==
    /\ call = "select_next_agent"
    /\ callStatus = "raised"
    /\ Len(chatBefore) = 2
    /\ Len(chat) = 4

\* C6: round-index is 0 at the start and always equals the number of
\* participant messages appended to the history.
C6_RoundCountsTurns ==
    /\ current_round = Turns(history)
    /\ (pc = "idle" => current_round = 0)

\* Two turns are complete.
C6_Witness ==
    /\ current_round = 2
    /\ Turns(history) = 2
    /\ pc = "check"

\* C7: three participants, max-rounds 1, the model never answers True:
\* when the loop stops, exactly one turn ran and the reason is the round
\* limit.
C7_ScenarioA ==
    (/\ Cardinality(registry) = 3
     /\ max_rounds = 1
     /\ ~saidTrue
     /\ pc \in {"filter", "flt_wait", "done"})
    => /\ Turns(history) = 1
       /\ Len(genInputs) = 1
       /\ reason = RoundLimitReason

\* Scenario A ran to its end.
C7_Witness ==
    /\ Cardinality(registry) = 3
    /\ max_rounds = 1
    /\ ~saidTrue
    /\ pc = "done"
    /\ Turns(history) = 1
    /\ reason = RoundLimitReason

\* C8: the model answers True to the first termination query: no speaker
\* is selected, nobody generates, filter_results is handed the one-message
\* history and does not raise the empty-history error.
C8_ScenarioB ==
    (saidTrue /\ current_round = 0)
    => /\ genInputs = <<>>
       /\ selected = NoName
       /\ \A i \in 1..Len(trace) : trace[i] \notin {"select_next_agent", "generate"}
       /\ history = <<history[1]>> /\ Seed(history)
       /\ error # EmptyHistoryError
       /\ pc \in {"filter", "flt_wait", "done", "failed"}
       /\ (pc # "filter" => call = "filter_results" /\ chatBefore = history)
       /\ (pc = "failed" => error \in {DecisionParseError, CapabilityError})
       /\ (pc = "done" => result.role = "assistant" /\ result.content \in Contents)

\* Scenario B ran to its end with a summary.
C8_Witness ==
    /\ saidTrue
    /\ current_round = 0
    /\ pc = "done"
    /\ result.role = "assistant"
    /\ trace = <<"should_terminate", "filter_results">>

\* C9: registry {A, B}, the model names Ghost at the first selection: the
\* run fails with the unknown-participant error and the history holds the
\* seed message only.
C9_ScenarioC ==
    (registry = {"A", "B"} /\ answered = "Ghost" /\ current_round = 0)
    => /\ pc = "failed"
       /\ error = UnknownParticipantError
       /\ history = <<history[1]>> /\ Seed(history)
       /\ ~IsFraming(history[1])
       /\ genInputs = <<>>

\* Scenario C happened.
C9_Witness ==
    /\ registry = {"A", "B"}
    /\ answered = "Ghost"
    /\ current_round = 0
    /\ pc = "failed"
    /\ trace = <<"should_terminate", "select_next_agent">>

\* C10: filter_results is not invoked while the loop runs; a run that is
\* Done has invoked it exactly once, as its last call, and returns what
\* that invocation returned.
C10_FilterOnce ==
    /\ filterCalls <= 1
    /\ (OrchState \in {"Created", "Running"} =>
          /\ filterCalls = 0
          /\ \A i \in 1..Len(trace) : trace[i] # "filter_results")
    /\ (pc = "done" =>
          /\ filterCalls = 1
          /\ trace[Len(trace)] = "filter_results"
          /\ \A i \in 1..(Len(trace) - 1) : trace[i] # "filter_results"
          /\ filterOut # NoMsg
          /\ result = filterOut)

\* A run is Done after two turns.
C10_Witness ==
    /\ pc = "done"
    /\ current_round = 2
    /\ filterCalls = 1
    /\ result.role = "assistant"

IsParticipantMessage(m) == m.role = "assistant"
ParticipantMessages(h) == SelectSeq(h, IsParticipantMessage)

\* C11: the observer is notified exactly once per participant message, in
\* generation order, after the message is appended and before the next
\* termination check; never for the seed or a framing message.
C11_ObserverOncePerTurn ==
    LET pm == ParticipantMessages(history) IN
    /\ Len(observed) <= Len(pm)
    /\ IF pc = "notify"
       THEN observed = SubSeq(pm, 1, Len(pm) - 1)
       ELSE observed = pm
    /\ \A i \in 1..Len(observed) :
         /\ observed[i].role = "assistant"
         /\ observed[i].name \in registry
         /\ ~IsFraming(observed[i])

\* Two different messages were reported and the next check is about to begin.
C11_Witness ==
    /\ pc = "check"
    /\ Len(observed) = 2
    /\ observed[1] # observed[2]

\* The external calls that have been made and have not completed.
PendingCalls ==
    (IF callStatus = "pending" THEN {call} ELSE {})
    \cup (IF pc = "gen_wait" THEN {"generate"} ELSE {})

\* C12: at most one external call is pending at any time, and no step that
\* leaves a call pending changes the history or round-index.
C12_OneCallAtATime ==
    /\ [](Cardinality(PendingCalls) <= 1)
    /\ [][PendingCalls' # {} =>
            /\ history' = history
            /\ current_round' = current_round]_vars

\* A generation is pending in the second turn.
C12_Witness ==
    /\ PendingCalls = {"generate"}
    /\ current_round = 1
    /\ Len(history) = 2

\* C13: the participant of turn k is handed the seed message followed by
\* the k-1 participant messages produced before, in generation order, and
\* nothing else.
C13_TurnInput ==
    \A k \in 1..Len(genInputs) :
        LET h == genInputs[k] IN
        /\ Len(h) = k
        /\ Seed(h)
        /\ h = SubSeq(history, 1, k)
        /\ \A i \in 2..k : h[i].role = "assistant" /\ h[i] = observed[i - 1]

\* The second participant has been handed its input and is generating.
C13_Witness ==
    /\ pc = "gen_wait"
    /\ Len(genInputs) = 2
    /\ genInputs[2][2].role = "assistant"

AllowedTransitions ==
    {<<"Created", "Running">>, <<"Running", "Terminating">>,
     <<"Terminating", "Done">>, <<"Running", "Failed">>,
     <<"Terminating", "Failed">>}

\* C14: the orchestrator's state changes only Running -> Terminating (on a
\* True answer or a round-cap hit), Terminating -> Done (filter_results
\* returned), Running/Terminating -> Failed (an error was raised); nothing
\* happens once the state is Done or Failed.
C14_StateMachine ==
    [][/\ (OrchState' # OrchState => <<OrchState, OrchState'>> \in AllowedTransitions)
       /\ (OrchState = "Running" /\ OrchState' = "Terminating" =>
             \/ lastRaw'.result = "true" /\ saidTrue'
             \/ current_round >= max_rounds /\ reason' = RoundLimitReason)
       /\ (OrchState = "Terminating" /\ OrchState' = "Done" =>
             /\ call = "filter_results"
             /\ callStatus' = "returned"
             /\ result' # NoMsg)
       /\ (OrchState # "Failed" /\ OrchState' = "Failed" =>
             /\ error' # NoError
             /\ callStatus' = "raised")
       /\ (OrchState \in {"Done", "Failed"} =>
             UNCHANGED <<history, observed, genInputs, trace, modelCalls,
                         current_round>>)]_vars

\* The run failed while Terminating, after one turn.
C14_Witness ==
    /\ pc = "failed"
    /\ call = "filter_results"
    /\ current_round = 1

\* C15: a failed run returns the error and no message; filter_results is
\* not invoked after the failure and no summary exists, and the history
\* accumulated up to the failure is kept.
C15_FailureReturnsError ==
    /\ [](error # NoError <=> pc = "failed")
    /\ [](pc = "failed" =>
            /\ result = NoMsg
            /\ filterOut = NoMsg
            /\ Seed(history)
            /\ Len(history) = 1 + current_round
            /\ ParticipantMessages(history) = observed
            /\ (call # "filter_results" => filterCalls = 0))
    /\ [][error # NoError =>
            /\ filterCalls' = filterCalls
            /\ result' = result
            /\ history' = history]_vars

\* A termination query failed to parse after one turn.
C15_Witness ==
    /\ pc = "failed"
    /\ error = DecisionParseError
    /\ call = "should_terminate"
    /\ Len(history) = 2

\* A response that has the {result, reason} shape the call expects.
Parsable(c, raw) ==
    /\ raw.form = "object"
    /\ raw.keys = {"result", "reason"}
    /\ (c = "should_terminate" => raw.result \in {"true", "false"})

\* C17: a response that cannot be parsed into {result, reason}, an empty
\* one included, makes the decision service raise; no decision comes out
\* and no default stands in for it.
C17_UnparsableRaises ==
    (lastRaw # NoResponse /\ ~Parsable(call, lastRaw))
    => /\ callStatus = "raised"
       /\ error = DecisionParseError
       /\ pc = "failed"
       /\ result = NoMsg
       /\ filterOut = NoMsg
       /\ (call = "select_next_agent" => selected = NoName /\ answered = NoName)
       /\ (call = "should_terminate" => reason = NoReason)

\* The model answered a selection query with an empty response.
C17_Witness ==
    /\ lastRaw = EmptyResponse
    /\ call = "select_next_agent"
    /\ callStatus = "raised"

\* C18 (as stated): every termination check obtains the model's decision
\* before the round cap is looked at, and at the cap the run terminates
\* with the round-limit reason.
C18_ModelDecisionFirst ==
    (call = "should_terminate" /\ callStatus = "returned")
    => /\ lastRaw # NoResponse
       /\ (current_round >= max_rounds =>
             reason = RoundLimitReason /\ OrchState = "Terminating")

\* C18 (amended): the round cap is checked first; at the cap
\* should_terminate returns the round-limit decision without asking the
\* model, and below the cap the model is asked.
C18_CapCheckedFirst ==
    call = "should_terminate" =>
        IF current_round >= max_rounds
        THEN /\ callStatus = "returned"
             /\ lastRaw = NoResponse
             /\ reason = RoundLimitReason
             /\ decision = [result |-> TRUE, reason |-> RoundLimitReason]
             /\ OrchState = "Terminating"
        ELSE callStatus = "pending" \/ lastRaw # NoResponse \/ error = CapabilityError

\* The cap stopped the loop after one turn: two queries were made in the
\* first iteration, none in the second.
C18_Witness ==
    /\ call = "should_terminate"
    /\ max_rounds = 1
    /\ current_round = 1
    /\ reason = RoundLimitReason
    /\ modelCalls = 2

\* C16: filter_results on a history without messages raises the
\* empty-history error before any model call and without adding a message;
\* on a history with at least one message it does not raise that error.
C16_EmptyHistoryGuard ==
    /\ [](call = "filter_results" =>
            (chatBefore = <<>> <=> error = EmptyHistoryError))
    /\ [](call = "filter_results" /\ chatBefore = <<>> =>
            /\ callStatus = "raised"
            /\ chat = <<>>
            /\ lastRaw = NoResponse
            /\ filterOut = NoMsg)
    /\ [][(trace' # trace /\ call' = "filter_results" /\ chat = <<>>) =>
            /\ modelCalls' = modelCalls
            /\ chat' = <<>>]_vars

\* filter_results was called on an empty history, as the second call on it.
C16_Witness ==
    /\ call = "filter_results"
    /\ chatBefore = <<>>
    /\ error = EmptyHistoryError
    /\ Len(trace) = 2

\* C20: should_request_user_input returns False for every history, asks
\* the model nothing and leaves the history as it was.
C20_NoUserInput ==
    /\ [](call = "should_request_user_input" =>
            /\ callStatus = "returned"
            /\ decision.result = FALSE
            /\ chat = chatBefore
            /\ lastRaw = NoResponse)
    /\ [][(trace' # trace /\ call' = "should_request_user_input") =>
            /\ modelCalls' = modelCalls
            /\ chat' = chat]_vars

\* It was asked about a history whose last message is a participant's,
\* after a summary query had been made on the same object.
C20_Witness ==
    /\ call = "should_request_user_input"
    /\ Len(chat) >= 2
    /\ chat[2].role = "assistant"
    /\ modelCalls = 1
    /\ decision.result = FALSE

\* C21: on a parsable model response {result, reason}, filter_results
\* returns a message with role Assistant whose content is the response's
\* result, together with the response's reason.
C21_SummaryFromResponse ==
    (/\ call = "filter_results"
     /\ lastRaw # NoResponse
     /\ Parsable("filter_results", lastRaw))
    => /\ callStatus = "returned"
       /\ filterOut.role = "assistant"
       /\ filterOut.content = lastRaw.result
       /\ reason = lastRaw.reason

\* filter_results returned the summary "m2" with the model's reason.
C21_Witness ==
    /\ call = "filter_results"
    /\ callStatus = "returned"
    /\ Len(chatBefore) = 2
    /\ filterOut = ChatMessageContent("assistant", NoName, "m2")
    /\ reason = "because"
\* C24: in every loop iteration the steps come in the order termination
\* query, speaker selection, generation, append, observer notification,
\* each at most once; selection follows only a false termination decision
\* below the cap, and after a true termination decision no selection and
\* no generation happens.
C24_StepOrder ==
    /\ [](\A i \in 1..Len(trace) :
            /\ trace[i] = "should_terminate"
               => (i = 1 \/ trace[i - 1] = "generate")
            /\ trace[i] = "select_next_agent"
               => (i > 1 /\ trace[i - 1] = "should_terminate")
            /\ trace[i] = "generate"
               => (i > 1 /\ trace[i - 1] = "select_next_agent")
            /\ trace[i] = "filter_results"
               => (i > 1 /\ trace[i - 1] = "should_terminate"))
    /\ [](/\ Len(genInputs) = Turns(history) + (IF pc = "gen_wait" THEN 1 ELSE 0)
          /\ Turns(history) = Len(observed) + (IF pc = "notify" THEN 1 ELSE 0))
    /\ [][(trace' # trace /\ trace'[Len(trace')] = "select_next_agent")
           => /\ lastRaw.result = "false"
              /\ decision.result = FALSE
              /\ current_round < max_rounds]_vars
    /\ [][(saidTrue /\ trace' # trace)
           => trace'[Len(trace')] \notin {"select_next_agent", "generate"}]_vars

\* One full iteration ran, then the model decided to stop and the run
\* went on to the summary.
C24_Witness ==
    /\ trace = <<"should_terminate", "select_next_agent", "generate",
                 "should_terminate", "filter_results">>
    /\ saidTrue
    /\ Len(observed) = 1
    /\ pc = "done"
\* C25 as stated: the termination request is the snapshot with the System
\* framing message and the User instruction both placed in front of every
\* snapshot message.
C25_BothPrepended ==
    (call = "should_terminate" /\ attempts >= 1)
    => /\ Len(chat) = Len(chatBefore) + 2
       /\ chat[1] = RenderPrompt(termination_prompt, topic, {})
       /\ chat[2] = ChatMessageContent("user", NoName, TerminationInstruction)
       /\ \A i \in 1..Len(chatBefore) : chat[i + 2] = chatBefore[i]

\* C25 amended: the termination request is the snapshot with the System
\* framing message in front of every snapshot message and the User
\* instruction behind every snapshot message; the snapshot messages sit
\* between the two in their original order.
C25_FramingAroundSnapshot ==
    (call = "should_terminate" /\ attempts >= 1)
    => /\ Len(chat) = Len(chatBefore) + 2
       /\ chat[1] = RenderPrompt(termination_prompt, topic, {})
       /\ chat[Len(chat)] = ChatMessageContent("user", NoName, TerminationInstruction)
       /\ \A i \in 1..Len(chatBefore) : chat[i + 1] = chatBefore[i]

\* A termination query was submitted over a two-message history.
C25_Witness ==
    /\ call = "should_terminate"
    /\ attempts = 1
    /\ Len(chatBefore) = 2
    /\ chatBefore[1] # chatBefore[2]
    /\ chat[4].content = TerminationInstruction
\* C26: the framing message of a selection query lists one
\* "id: description" entry for every participant of the registry and for
\* no other id, whoever spoke before.
C26_ListingCoversRegistry ==
    call = "select_next_agent"
    => LET listing == chat[1].participants IN
       /\ chat[1].role = "system"
       /\ chat[1].content = selection_prompt
       /\ {e[1] : e \in listing} = registry
       /\ Cardinality(listing) = Cardinality(registry)
       /\ \A e \in listing : e[2] = Descriptions(registry)[e[1]]

\* A selection query in the second round of a three-participant chat,
\* after "B" spoke.
C26_Witness ==
    /\ call = "select_next_agent"
    /\ callStatus = "pending"
    /\ Cardinality(registry) = 3
    /\ current_round = 1
    /\ \E i \in 1..Len(chatBefore) : chatBefore[i].name = "B"
\* C27: a service failure of a decision service's model call becomes fatal
\* only after the call site has retried the query, so a run that failed
\* on a service failure has submitted the failing query more than once.
C27_RetriedBeforeFatal ==
    error = CapabilityError => attempts >= 2

\* C28: when every external call returns or raises, every run reaches
\* Done or Failed, and at most max-rounds participant turns are requested
\* and completed on the way, whatever the model answers.
C28_RunEnds ==
    /\ [](Turns(history) <= max_rounds /\ Len(genInputs) <= max_rounds)
    /\ <>(OrchState \in {"Done", "Failed"})

\* A run that used all its rounds and ended with a summary.
C28_Witness ==
    /\ OrchState = "Done"
    /\ max_rounds = MaxRoundsBound
    /\ Turns(history) = max_rounds
    /\ ~saidTrue
\* C29: when the round limit is reached, should_terminate returns the
\* base decision as it is, asks the model nothing and adds no message to
\* the history it was given; below the limit it queries the model.
C29_BaseDecisionReturned ==
    /\ [](call = "should_terminate" =>
            IF current_round >= max_rounds
            THEN /\ callStatus = "returned"
                 /\ decision = [result |-> TRUE, reason |-> RoundLimitReason]
                 /\ chat = chatBefore
                 /\ attempts = 0
                 /\ lastRaw = NoResponse
            ELSE attempts >= 1)
    /\ [][(trace' # trace /\ call' = "should_terminate") =>
            IF current_round >= max_rounds
            THEN modelCalls' = modelCalls /\ chat' = chat
            ELSE modelCalls' > modelCalls]_vars

\* should_terminate was called at the round limit on a two-message
\* history, after a call that had asked the model.
C29_Witness ==
    /\ call = "should_terminate"
    /\ current_round = max_rounds
    /\ callStatus = "returned"
    /\ Len(chat) = 2
    /\ Len(trace) = 2

\* The calls that frame the history they receive.
FramingCall(c, h) ==
    \/ c = "should_terminate" /\ current_round < max_rounds
    \/ c = "select_next_agent"
    \/ c = "filter_results" /\ h # <<>>

\* C30: each call of should_terminate below the round limit, of
\* select_next_agent and of filter_results on a non-empty history adds a
\* System message at index 0 and a User message at the end of the object it
\* receives and leaves the messages already there as they were, in order;
\* after k such calls the object is 2k messages longer than at first.
C30_TwoMessagesPerCall ==
    /\ [][(trace' # trace /\ FramingCall(call', chat)) =>
            /\ Len(chat') = Len(chat) + 2
            /\ chat'[1].role = "system"
            /\ chat'[Len(chat')].role = "user"
            /\ chat'[Len(chat')].content \in Instructions
            /\ \A i \in 1..Len(chat) : chat'[i + 1] = chat[i]]_vars
    /\ [][(trace' # trace /\ ~FramingCall(call', chat)) => chat' = chat]_vars
    /\ [](LET k == Cardinality({i \in 1..Len(chat) : chat[i].role = "system"}) IN
          /\ 2 * k <= Len(chat)
          /\ Len(chat) - 2 * k <= MaxDirectLen
          /\ \A i \in 1..Len(chat) :
                /\ i <= k => chat[i].role = "system"
                /\ (k < i /\ i <= Len(chat) - k) => chat[i] \in DirectMessages
                /\ i > Len(chat) - k => chat[i].content \in Instructions)

\* Two framing calls in a row on the same two-message object.
C30_Witness ==
    /\ Len(trace) = 2
    /\ Len(chat) = 6
    /\ chat[1].role = "system" /\ chat[2].role = "system"
    /\ chat[5].content \in Instructions /\ chat[6].content \in Instructions
    /\ call = "select_next_agent"
\* C22: the kernel-based scope_topic returns a dictionary exactly when the
\* stripped model output is a JSON object with both keys "refined_topic"
\* and "scope_statement"; otherwise (not JSON, JSON that is no object, an
\* object missing a key) it returns the stripped output string; it always
\* returns.
C22_DictExactlyForScopeObject ==
    scopeOut # NoScopeOut
    => /\ scopeOut.kind \in {"dict", "str"}
       /\ scopeOut.kind = "dict"
          <=> /\ scopeIn.form = "object"
              /\ {"refined_topic", "scope_statement"} \subseteq scopeIn.keys
       /\ scopeOut.kind = "dict" => scopeOut.keys = scopeIn.keys
       /\ scopeOut.kind = "str"
          => /\ ~scopeOut.pad
             /\ scopeOut.form = scopeIn.form
             /\ scopeOut.keys = scopeIn.keys
             /\ scopeOut.layout = scopeIn.layout

\* The model answered with a padded JSON array that holds both key names:
\* the stripped string came back.
C22_Witness ==
    /\ scopeIn.form = "array"
    /\ scopeIn.pad
    /\ {"refined_topic", "scope_statement"} \subseteq scopeIn.keys
    /\ scopeOut.kind = "str"
\* C23: the Foundry-based scope_topic always returns a string: the error
\* string when thread creation, the agent response or thread deletion
\* failed; otherwise the re-serialised JSON when the stripped response is a
\* JSON object with both keys, and the stripped response itself in every
\* other case.
C23_AlwaysAString ==
    (thread.pc = "idle" /\ scopeOut # NoScopeOut)
    => /\ scopeOut.kind = "str"
       /\ IF thread.failure # "none"
          THEN scopeOut.form = "error"
          ELSE IF /\ scopeIn.form = "object"
                  /\ {"refined_topic", "scope_statement"} \subseteq scopeIn.keys
          THEN /\ scopeOut.form = "object"
               /\ scopeOut.keys = scopeIn.keys
               /\ scopeOut.layout = "indent2"
               /\ ~scopeOut.pad
          ELSE /\ scopeOut.form = scopeIn.form
               /\ scopeOut.keys = scopeIn.keys
               /\ scopeOut.layout = scopeIn.layout
               /\ ~scopeOut.pad

\* Without a clarification the agent answered with a compact JSON object
\* holding both keys, in the second call on this agent.
C23_Witness ==
    /\ thread.pc = "idle"
    /\ thread.created = 2
    /\ thread.failure = "none"
    /\ scopeIn.clarification = NoClarification
    /\ scopeIn.form = "object"
    /\ scopeIn.layout = "compact"
    /\ scopeIn.keys = {"refined_topic", "scope_statement"}
    /\ scopeOut.layout = "indent2"
\* C31: every thread scope_topic creates is deleted before scope_topic
\* returns, and thread_id is None whenever no scope_topic call is in
\* progress, whether the call succeeded or the agent response or the
\* deletion failed.
C31_ThreadsCleanedUp ==
    thread.pc = "idle" => thread.thread_id = 0 /\ thread.live = {}
====
